---- MODULE Spec2Model ----
(***************************************************************************)
(* Model of the tool dispatcher of recoll_mcp_server.py.                   *)
(*                                                                         *)
(* One call of handle_call_tool is a short run of steps: the entry check   *)
(* of the index connection, the branch of the if/elif chain selected by    *)
(* the tool name (argument reading and query building), db.query(),        *)
(* query.execute(), the fetch loop with format_doc_result, and the return  *)
(* of the envelope or of an error text.  The index engine and the          *)
(* filesystem are the environment: what execute and fetchone answer is     *)
(* chosen nondeterministically at the step that calls them.                *)
(*                                                                         *)
(* Encodings.  Query expressions and messages are strings.  Values that    *)
(* the code slices or scans (urls, file contents, abstracts, mtime tokens) *)
(* are sequences of one-character strings.  A Python dict is a function    *)
(* whose domain is the set of keys present.  json.dumps(obj, indent=2) is  *)
(* the value [json |-> obj]; an f-string text is [plain |-> string].       *)
(* datetime.fromtimestamp is computed for a process whose local time zone  *)
(* is UTC.                                                                 *)
(***************************************************************************)
EXTENDS Integers, Sequences, FiniteSets, TLC

\* ------------------------------------------------------------------ bounds
MaxInvocations == 2
MaxTotal == 2
MaxResultsArg == 2

\* ------------------------------------------------------- program constants
DefaultMaxResults == 20
DefaultDays == 7
PreviewLimit == 300
ContentLimit == 10000
SchemeLen == 7

\* ----------------------------------------------------------------- state
VARIABLES
    db,              \* the module-level connection: "connected" or "None"
    pc,              \* position of the protocol loop / handle_call_tool
    name,            \* the invocation's tool name
    arguments,       \* the invocation's arguments dict
    query_str,       \* the expression the branch built (query_str / full_query)
    max_results,
    include_preview, \* what the branch passes to format_doc_result
    handle,          \* the query handle of this invocation (0: none yet)
    nres,            \* what execute returned
    results,
    response,        \* what handle_call_tool returned
    nhandles,        \* engine side: query handles created since startup
    calls,           \* engine side: the calls this invocation made, in order
    fetched,         \* engine side: the hits it handed back to this invocation
    fault,           \* what failed in this invocation, if anything
    served,          \* invocations the protocol loop has completed
    prevFault        \* the kind of fault of the previous invocation

vars ==
    <<db, pc, name, arguments, query_str, max_results, include_preview, handle,
      nres, results, response, nhandles, calls, fetched, fault, served,
      prevFault>>

\* ------------------------------------------------------------ text helpers
Min(a, b) == IF a <= b THEN a ELSE b

\* s[:n] for n >= 0
SliceTo(s, n) == SubSeq(s, 1, Min(n, Len(s)))

\* s[n:] for n >= 0
SliceFrom(s, n) == SubSeq(s, n + 1, Len(s))

\* s.startswith(p)
StartsWith(s, p) == Len(s) >= Len(p) /\ SubSeq(s, 1, Len(p)) = p

DigitChars == <<"0", "1", "2", "3", "4", "5", "6", "7", "8", "9">>

IsDigit(c) == \E i \in 1..10 : DigitChars[i] = c

DigitVal(c) == (CHOOSE i \in 1..10 : DigitChars[i] = c) - 1

\* the string a sequence of characters spells
\* the str of a sequence of characters (joined by halves)
RECURSIVE JoinChars(_)
JoinChars(s) ==
    IF Len(s) = 0 THEN ""
    ELSE IF Len(s) = 1 THEN s[1]
    ELSE JoinChars(SubSeq(s, 1, Len(s) \div 2))
             \o JoinChars(SubSeq(s, Len(s) \div 2 + 1, Len(s)))

\* how many elements at the start of s are in the set cs
PrefixLen(s, cs) == Cardinality({k \in 1..Len(s) : \A i \in 1..k : s[i] \in cs})

\* how many elements at the end of s are in the set cs
SuffixLen(s, cs) == Cardinality({k \in 1..Len(s) : \A i \in k..Len(s) : s[i] \in cs})

\* a text of n characters whose i-th character is the last digit of i
Filler(n) == [i \in 1..n |-> DigitChars[(i % 10) + 1]]

\* -------------------------------------------------------------- exceptions
Ok(v) == [tag |-> "ok", val |-> v]

Raise(t, m) == [tag |-> "raise", type |-> t, msg |-> m]

\* --------------------------------------------------- datetime / int parsing
\* Characters are ASCII: the printable ones and \t \n \r \f.  A Python int is
\* the record [neg, mag]: its sign and the decimal digits of its magnitude,
\* most significant first, without leading zeros (zero has no digit).
Whitespace == {" ", "\t", "\n", "\r", "\f"}

LStrip(s) == SubSeq(s, PrefixLen(s, Whitespace) + 1, Len(s))

RStrip(s) == SubSeq(s, 1, Len(s) - SuffixLen(s, Whitespace))

\* the characters repr writes for character c of a str quoted with quote
ReprChar(c, quote) ==
    CASE c = "\\" -> <<"\\", "\\">>
      [] c = "\n" -> <<"\\", "n">>
      [] c = "\t" -> <<"\\", "t">>
      [] c = "\r" -> <<"\\", "r">>
      [] c = "\f" -> <<"\\", "x", "0", "c">>
      [] c = quote -> <<"\\", c>>
      [] OTHER -> <<c>>

\* the concatenation of a sequence of sequences (by halves)
RECURSIVE Flatten(_)
Flatten(ss) ==
    IF Len(ss) = 0 THEN <<>>
    ELSE IF Len(ss) = 1 THEN ss[1]
    ELSE Flatten(SubSeq(ss, 1, Len(ss) \div 2))
             \o Flatten(SubSeq(ss, Len(ss) \div 2 + 1, Len(ss)))

\* the quote character of repr(s): double quotes when s holds a single quote
\* and no double quote
ReprQuote(s) ==
    IF (\E i \in 1..Len(s) : s[i] = "'") /\ ~(\E i \in 1..Len(s) : s[i] = "\"")
    THEN "\"" ELSE "'"

\* the characters of repr(s) of a str
ReprChars(s) ==
    <<ReprQuote(s)>>
        \o Flatten([i \in 1..Len(s) |-> ReprChar(s[i], ReprQuote(s))])
        \o <<ReprQuote(s)>>

Repr(s) == JoinChars(ReprChars(s))

\* the first n characters of repr(s), as the format %.nR writes them
ReprPrefix(s, n) ==
    IF Len(s) < n THEN JoinChars(SliceTo(ReprChars(s), n))
    ELSE JoinChars(SliceTo(<<ReprQuote(s)>>
                               \o Flatten([i \in 1..n |-> ReprChar(s[i], ReprQuote(s))]),
                           n))

StripZeros(m) == SubSeq(m, PrefixLen(m, {0}) + 1, Len(m))

PyInt(neg, mag) == [neg |-> neg /\ mag # <<>>, mag |-> mag]

\* digits with single underscores between them
ValidDigits(b) ==
    /\ Len(b) > 0
    /\ \A i \in 1..Len(b) :
          \/ IsDigit(b[i])
          \/ /\ b[i] = "_"
             /\ 1 < i
             /\ i < Len(b)
             /\ IsDigit(b[i - 1])
             /\ IsDigit(b[i + 1])

\* the longest prefix of b made of digits and underscores
DigitRun(b) == SubSeq(b, 1, PrefixLen(b, {DigitChars[i] : i \in 1..10} \cup {"_"}))

\* int(s) for a str s, base 10: whitespace, a sign, then the run of digits and
\* underscores; a misplaced underscore is refused while the run is scanned, the
\* digit limit is tested at the end of the run, and only then what follows it
ParseInt(s) ==
    LET t == RStrip(LStrip(s))
        signed == t # <<>> /\ Head(t) \in {"+", "-"}
        body == IF signed THEN Tail(t) ELSE t
        run == DigitRun(body)
        digits == SelectSeq(run, IsDigit)
        invalid == Raise("ValueError",
                         "invalid literal for int() with base 10: " \o ReprPrefix(s, 200))
    IN  IF run # <<>> /\ ~ValidDigits(run) THEN invalid
        ELSE IF Len(digits) > 4300
        THEN Raise("ValueError",
                   "Exceeds the limit (4300 digits) for integer string conversion: value has "
                       \o ToString(Len(digits))
                       \o " digits; use sys.set_int_max_str_digits() to increase the limit")
        ELSE IF run = <<>> \/ Len(run) < Len(body) THEN invalid
        ELSE Ok(PyInt(signed /\ Head(t) = "-",
                      StripZeros([i \in 1..Len(digits) |-> DigitVal(digits[i])])))

\* a < b for magnitudes
RECURSIVE LexLess(_, _)
LexLess(a, b) ==
    /\ a # <<>>
    /\ \/ Head(a) < Head(b)
       \/ Head(a) = Head(b) /\ LexLess(Tail(a), Tail(b))

MagLess(a, b) == Len(a) < Len(b) \/ (Len(a) = Len(b) /\ LexLess(a, b))

\* n < lo or n > hi, for lo = -loMag and hi = hiMag
OutOfRange(n, loMag, hiMag) == IF n.neg THEN MagLess(loMag, n.mag) ELSE MagLess(hiMag, n.mag)

\* quotient (digits) and remainder of magnitude m by d, 0 < d < 200000
RECURSIVE LongDiv(_, _)
LongDiv(m, d) ==
    IF m = <<>> THEN [q |-> <<>>, r |-> 0]
    ELSE LET p == LongDiv(SubSeq(m, 1, Len(m) - 1), d)
             cur == p.r * 10 + m[Len(m)]
         IN  [q |-> Append(p.q, cur \div d), r |-> cur % d]

\* the int a short run of digits spells
RECURSIVE DecimalValue(_)
DecimalValue(m) ==
    IF m = <<>> THEN 0
    ELSE 10 * DecimalValue(SubSeq(m, 1, Len(m) - 1)) + m[Len(m)]

\* the range of C long long (time_t)
TimeTMin == <<9, 2, 2, 3, 3, 7, 2, 0, 3, 6, 8, 5, 4, 7, 7, 5, 8, 0, 8>>
TimeTMax == <<9, 2, 2, 3, 3, 7, 2, 0, 3, 6, 8, 5, 4, 7, 7, 5, 8, 0, 7>>

\* the range localtime converts: tm_year must fit a C int
LocaltimeMin == <<6, 7, 7, 6, 8, 0, 4, 0, 6, 0, 9, 7, 4, 0, 8, 0, 0>>
LocaltimeMax == <<6, 7, 7, 6, 8, 0, 3, 6, 1, 9, 1, 6, 7, 6, 7, 9, 9>>

\* tm.tm_year + 1900 in C int arithmetic, for era400 + rest the true year:
\* a year above 2147483647 wraps around
WrappedYear(era400, rest) ==
    IF era400 > 2147483647 - rest
    THEN ((era400 - 2147483647) + rest - 2) - 2147483647
    ELSE era400 + rest

\* the value of a one-element set: binds a value that is computed once
The(S) == CHOOSE v \in S : TRUE

\* floor division of n by 86400 and then of the days by 146097: n seconds are
\* 146097 * E + D days (0 <= D < 146097) and rem seconds (0 <= rem < 86400)
SplitSeconds(n) ==
    LET sd == LongDiv(n.mag, 86400)
        dd == LongDiv(StripZeros(sd.q), 146097)
        e0 == DecimalValue(StripZeros(dd.q))
        \* days = -(e0 * 146097 + t) when n is negative
        t == IF sd.r = 0 THEN dd.r ELSE dd.r + 1
    IN  [E |-> IF ~n.neg THEN e0 ELSE IF t = 0 THEN -e0 ELSE -(e0 + 1),
         D |-> IF ~n.neg THEN dd.r
               ELSE IF t = 0 \/ t = 146097 THEN 0 ELSE 146097 - t,
         rem |-> IF n.neg /\ sd.r # 0 THEN 86400 - sd.r ELSE sd.r]

\* the proleptic Gregorian date of day 146097 * E + D since 1970-01-01 and the
\* time of day rem
CivilTime(E, D, rem) ==
    LET z == D + 719468
        era == z \div 146097
        doe == z % 146097
        yoe == (doe - doe \div 1460 + doe \div 36524 - doe \div 146096) \div 365
        doy == doe - (365 * yoe + yoe \div 4 - yoe \div 100)
        mp == (5 * doy + 2) \div 153
        d == doy - (153 * mp + 2) \div 5 + 1
        m == IF mp < 10 THEN mp + 3 ELSE mp - 9
        rest == yoe + era * 400 + (IF m <= 2 THEN 1 ELSE 0)
        y == IF E >= 0 THEN WrappedYear(400 * E, rest)
             ELSE 400 * (E + 6) + (rest - 2400)
    IN  [year |-> y, month |-> m, day |-> d, hour |-> rem \div 3600,
         minute |-> (rem % 3600) \div 60, second |-> rem % 60]

\* localtime(n) of a process whose zone is UTC, n within the localtime range
LocalTime(n) == The({CivilTime(s.E, s.D, s.rem) : s \in {SplitSeconds(n)}})

YearOutOfRange(y) == Raise("ValueError", "year " \o ToString(y) \o " is out of range")

\* the datetime of a struct tm: ValueError for a year not in 1..9999, for tm
\* or for the instant one day earlier that fold detection probes
DatetimeOf(tm) ==
    IF tm.year < 1 \/ tm.year > 9999 THEN YearOutOfRange(tm.year)
    ELSE IF tm.year = 1 /\ tm.month = 1 /\ tm.day = 1 THEN YearOutOfRange(0)
    ELSE Ok(tm)

\* datetime.fromtimestamp(n) for an int n, local zone UTC: the datetime, or
\* OverflowError (time_t), OSError (localtime), ValueError (year)
FromTimestamp(n) ==
    IF OutOfRange(n, TimeTMin, TimeTMax)
    THEN Raise("OverflowError", "timestamp out of range for platform time_t")
    ELSE IF OutOfRange(n, LocaltimeMin, LocaltimeMax)
    THEN Raise("OSError", "[Errno 75] Value too large for defined data type")
    ELSE The({DatetimeOf(tm) : tm \in {LocalTime(n)}})

Pad2(n) == IF n < 10 THEN "0" \o ToString(n) ELSE ToString(n)

\* dt.strftime("%Y-%m-%d %H:%M:%S") with the C library's %Y, which glibc
\* writes without padding
Strftime(tm) ==
    ToString(tm.year) \o "-" \o Pad2(tm.month) \o "-" \o Pad2(tm.day) \o " "
        \o Pad2(tm.hour) \o ":" \o Pad2(tm.minute) \o ":" \o Pad2(tm.second)

\* datetime.fromtimestamp(int(mtime[1:])).strftime("%Y-%m-%d %H:%M:%S")
Formatted(n) ==
    IF n.tag = "raise" THEN n
    ELSE The({IF dt.tag = "raise" THEN dt ELSE Ok(Strftime(dt.val)) :
              dt \in {FromTimestamp(n.val)}})

MtimeReadable(mtime) == The({Formatted(n) : n \in {ParseInt(SliceFrom(mtime, 1))}})

\* ---------------------------------------------------------- the raw hits
NoneDoc == [none |-> TRUE]

MtimeGood == <<"0", "1", "7", "0", "0", "0", "0", "0", "0", "0", "0">>
MtimeBadTail == <<"0", "a", "b", "c">>
MtimeEmpty == <<>>
MtimeSigned == <<"0", "-", "1", "2">>
MtimeYear10000 == <<"0", "2", "5", "3", "4", "0", "2", "3", "0", "0", "8", "0", "0">>

DocBase(fname, mtime) ==
    [filename |-> fname, url |-> "file:///home/u/" \o fname,
     mimetype |-> "text/plain", fbytes |-> "5", mtime |-> mtime]

WithAbstract(doc, text) == [abstract |-> text] @@ doc

DocIds == 1..7

\* the Doc object the engine hands back for hit id
RawHit(id) ==
    CASE id = 1 -> WithAbstract(DocBase("a.txt", MtimeGood), <<"h", "i">>)
      [] id = 2 -> DocBase("b.txt", MtimeGood)
      [] id = 3 -> WithAbstract(DocBase("c.txt", MtimeGood), Filler(PreviewLimit + 1))
      [] id = 4 -> WithAbstract(DocBase("d.txt", MtimeBadTail), <<"h", "i">>)
      [] id = 5 -> DocBase("e.txt", MtimeEmpty)
      [] id = 6 -> DocBase("f.txt", MtimeSigned)
      [] id = 7 -> DocBase("g.txt", MtimeYear10000)

HasAttr(doc, a) == a \in DOMAIN doc

\* ------------------------------------------------------- format_doc_result
FormatDocResult(doc, preview_wanted) ==
    IF doc = NoneDoc
    THEN Raise("AttributeError", "'NoneType' object has no attribute 'filename'")
    ELSE LET readable == MtimeReadable(doc.mtime)
             result == [filename |-> doc.filename, url |-> doc.url,
                        mimetype |-> doc.mimetype, size |-> doc.fbytes,
                        mtime |-> doc.mtime, mtime_readable |-> readable.val]
         IN  IF readable.tag = "raise" THEN readable
             ELSE IF preview_wanted /\ HasAttr(doc, "abstract")
                  THEN Ok([preview |-> SliceTo(doc.abstract, PreviewLimit)] @@ result)
                  ELSE Ok(result)

\* ------------------------------------------------------------- filesystem
FileScheme == <<"f", "i", "l", "e", ":", "/", "/">>

PathHello == <<"/", "x">>
PathExact == <<"/", "m">>
PathLong == <<"/", "b">>
PathMissing == <<"/", "n">>
PathQuoted == <<"/", "i", "t", "'", "s">>
PathRoot == <<"/">>

\* The file system: the root directory holds three regular files and nothing
\* else, and the process runs with the root directory as its working directory.
RootFiles == {Tail(PathHello), Tail(PathExact), Tail(PathLong)}

FileContent(file) ==
    CASE file = Tail(PathHello) -> <<"h", "e", "l", "l", "o">>
      [] file = Tail(PathExact) -> Filler(ContentLimit)
      [] file = Tail(PathLong) -> Filler(ContentLimit + 1)

\* the component of path p that starts at position i
Component(p, i) ==
    SubSeq(p, i, i - 1 + Cardinality({k \in i..Len(p) : \A j \in i..k : p[j] # "/"}))

\* path resolution from the root directory, for a path p that is not empty:
\* the errno, or 0 and the file reached.  Slashes and the components . and ..
\* stay in the root directory; the first other component is looked up there,
\* and a regular file cannot be followed by anything.
Lookup(p) ==
    LET starts == {i \in 1..Len(p) : p[i] # "/" /\ (i = 1 \/ p[i - 1] = "/")}
        named == {i \in starts : Component(p, i) \notin {<<".">>, <<".", ".">>}}
        first == CHOOSE i \in named : \A j \in named : i <= j
        c == Component(p, first)
    IN  IF named = {} THEN [errno |-> 21, file |-> <<>>]
        ELSE IF Len(c) > 255 THEN [errno |-> 36, file |-> <<>>]
        ELSE IF c \notin RootFiles THEN [errno |-> 2, file |-> <<>>]
        ELSE IF first + Len(c) - 1 < Len(p) THEN [errno |-> 20, file |-> <<>>]
        ELSE [errno |-> 0, file |-> c]

\* open(filepath, 'r'): a path of 4096 characters or more is too long, the
\* empty path names nothing
Open(filepath) ==
    IF Len(filepath) >= 4096 THEN [errno |-> 36, file |-> <<>>]
    ELSE IF filepath = <<>> THEN [errno |-> 2, file |-> <<>>]
    ELSE Lookup(filepath)

\* the OSError subclass and the strerror text of an errno
OSErrorOf(errno) ==
    CASE errno = 2 -> [type |-> "FileNotFoundError", text |-> "No such file or directory"]
      [] errno = 20 -> [type |-> "NotADirectoryError", text |-> "Not a directory"]
      [] errno = 21 -> [type |-> "IsADirectoryError", text |-> "Is a directory"]
      [] errno = 36 -> [type |-> "OSError", text |-> "File name too long"]

\* open(filepath, 'r', encoding='utf-8', errors='ignore').read()
ReadFile(filepath) ==
    LET o == Open(filepath)
    IN  IF o.errno = 0 THEN Ok(FileContent(o.file))
        ELSE Raise(OSErrorOf(o.errno).type,
                   "[Errno " \o ToString(o.errno) \o "] " \o OSErrorOf(o.errno).text
                       \o ": " \o Repr(filepath))

Urls ==
    {FileScheme \o PathHello, PathHello, FileScheme \o PathExact,
     FileScheme \o PathLong, FileScheme \o PathMissing, FileScheme,
     PathQuoted, FileScheme \o PathRoot}

\* ---------------------------------------------------------------- inputs
EmptyDict == [k \in {} |-> 0]

\* the dicts that hold key k with a value of S, or do not hold it
Opt(k, S) == {EmptyDict} \cup {(k :> v) : v \in S}

MaxResultsValues == 0..MaxResultsArg

ToolNames ==
    {"search_filesystem", "search_by_date", "search_by_filetype",
     "get_document_content", "list_recent_files"}

UnknownNames == {"delete_index"}

ArgumentsOf(n) ==
    CASE n = "search_filesystem" ->
            {a @@ b @@ c : a \in Opt("query", {"todo"}),
                           b \in Opt("max_results", MaxResultsValues),
                           c \in Opt("include_preview", BOOLEAN)}
      [] n = "search_by_date" ->
            {a @@ b @@ c @@ d : a \in Opt("query", {"todo"}),
                                b \in Opt("start_date", {"2025-01-01"}),
                                c \in Opt("end_date", {"2025-12-31"}),
                                d \in Opt("max_results", MaxResultsValues)}
      [] n = "search_by_filetype" ->
            {a @@ b @@ c : a \in Opt("query", {"yubikey"}),
                           b \in Opt("filetype", {"pdf"}),
                           c \in Opt("max_results", MaxResultsValues)}
      [] n = "get_document_content" -> Opt("url", Urls)
      [] n = "list_recent_files" ->
            {a @@ b : a \in Opt("days", {3}),
                      b \in Opt("max_results", MaxResultsValues)}
      [] OTHER -> {EmptyDict}

\* arguments.get(k, default)
Get(a, k, default) == IF k \in DOMAIN a THEN a[k] ELSE default

\* bool(arguments.get(k)) for a string-valued key: present and not empty
Truthy(a, k) == k \in DOMAIN a /\ a[k] # ""

KeyError(k) == Raise("KeyError", "'" \o k \o "'")

\* ----------------------------------------------------------- query builder
\* DateFilter with the end-only clause written on the wrong side of the slash
DateFilterEndMisplaced(a) ==
    IF Truthy(a, "start_date") /\ Truthy(a, "end_date")
    THEN " date:" \o a["start_date"] \o "/" \o a["end_date"]
    ELSE IF Truthy(a, "start_date")
    THEN " date:" \o a["start_date"] \o "/"
    ELSE IF Truthy(a, "end_date")
    THEN " date:" \o a["end_date"] \o "/"
    ELSE ""

\* the date filter of search_by_date
DateFilter(a) ==
    IF Truthy(a, "start_date") /\ Truthy(a, "end_date")
    THEN " date:" \o a["start_date"] \o "/" \o a["end_date"]
    ELSE IF Truthy(a, "start_date")
    THEN " date:" \o a["start_date"] \o "/"
    ELSE IF Truthy(a, "end_date")
    THEN " date:/" \o a["end_date"]
    ELSE ""

\* the type filter of search_by_filetype
MimeQuery(q, filetype) == q \o " mime:" \o filetype

\* the expression of list_recent_files
RecentQuery(days) == "date:" \o ToString(days) \o "d/"

\* ------------------------------------------------------------- responses
TextContent(t) == [type |-> "text", text |-> t]

Plain(s) == [plain |-> s]

JsonDumps(obj) == [json |-> obj]

Return(r) == [pc |-> "returned", response |-> r]

Propagate == [pc |-> "raised", response |-> <<>>]

UnavailableText == "Error: Recoll database not available. Check configuration."

Unavailable == Return(<<TextContent(Plain(UnavailableText))>>)

UnknownToolResponse(n) == Return(<<TextContent(Plain("Unknown tool: " \o n))>>)

\* OuterExcept as `except ValueError`: any other exception leaves the handler
OuterExceptValueErrorOnly(e) ==
    IF e.type = "ValueError"
    THEN Return(<<TextContent(Plain("Error executing search: " \o e.msg))>>)
    ELSE Propagate

\* except Exception as e, around the whole dispatch
OuterExcept(e) ==
    Return(<<TextContent(Plain("Error executing search: " \o e.msg))>>)

\* except Exception as e, around open/read/dumps of get_document_content
InnerExcept(e) ==
    Return(<<TextContent(Plain("Error reading file: " \o e.msg))>>)

\* SearchEnvelope echoing the caller's query instead of the translated one
SearchEnvelopeRawQuery(q, n, res) ==
    Return(<<TextContent(JsonDumps(
        [query |-> arguments["query"], total_results |-> n,
         returned_results |-> Len(res), results |-> res]))>>)

SearchEnvelope(q, n, res) ==
    Return(<<TextContent(JsonDumps(
        [query |-> q, total_results |-> n,
         returned_results |-> Len(res), results |-> res]))>>)

RecentEnvelope(days, n, res) ==
    Return(<<TextContent(JsonDumps(
        [days |-> days, total_results |-> n,
         returned_results |-> Len(res), results |-> res]))>>)

\* ContentEnvelope with the truncation test off by one
ContentEnvelopeAtLimit(url, filepath, content) ==
    Return(<<TextContent(JsonDumps(
        [url |-> url, filepath |-> filepath,
         content |-> SliceTo(content, ContentLimit),
         truncated |-> (Len(content) >= ContentLimit)]))>>)

ContentEnvelope(url, filepath, content) ==
    Return(<<TextContent(JsonDumps(
        [url |-> url, filepath |-> filepath,
         content |-> SliceTo(content, ContentLimit),
         truncated |-> (Len(content) > ContentLimit)]))>>)

\* the path get_document_content opens for url
FilePath(url) == IF StartsWith(url, FileScheme) THEN SliceFrom(url, SchemeLen) ELSE url

NoFault == [kind |-> "none", msg |-> ""]

Fault(k, e) == [kind |-> k, msg |-> e.msg]

locals == <<query_str, max_results, include_preview, handle, nres, results>>

\* recoll.connect() at import, or db = None when it raises
Init ==
    /\ db \in {"connected", "None"}
    /\ pc = "idle"
    /\ name = ""
    /\ arguments = EmptyDict
    /\ query_str = ""
    /\ max_results = 0
    /\ include_preview = TRUE
    /\ handle = 0
    /\ nres = 0
    /\ results = <<>>
    /\ response = <<>>
    /\ nhandles = 0
    /\ calls = <<>>
    /\ fetched = <<>>
    /\ fault = NoFault
    /\ served = 0
    /\ prevFault = "none"

\* leave the handler with outcome out (a return or a propagated exception)
Leave(out, f) ==
    /\ pc' = out.pc
    /\ response' = out.response
    /\ fault' = f

\* the protocol loop calls handle_call_tool(n, a); the entry check of db
HandleCallTool(n, a) ==
    /\ pc = "idle"
    /\ served < MaxInvocations
    /\ name' = n
    /\ arguments' = a
    /\ IF db = "None"
       THEN Leave(Unavailable, NoFault)
       ELSE /\ pc' = "dispatch"
            /\ UNCHANGED <<response, fault>>
    /\ UNCHANGED <<db, locals, nhandles, calls, fetched, served, prevFault>>

\* a search branch has read its arguments and built expression q
StartSearch(q, preview) ==
    /\ query_str' = q
    /\ max_results' = Get(arguments, "max_results", DefaultMaxResults)
    /\ include_preview' = preview
    /\ pc' = "query"
    /\ UNCHANGED <<response, fault>>

\* a branch failed on a missing key before it touched the engine
FailArguments(k) ==
    /\ Leave(OuterExcept(KeyError(k)), Fault("args", KeyError(k)))
    /\ UNCHANGED <<query_str, max_results, include_preview>>

SearchFilesystem ==
    /\ pc = "dispatch"
    /\ name = "search_filesystem"
    /\ IF "query" \notin DOMAIN arguments
       THEN FailArguments("query")
       ELSE StartSearch(arguments["query"], Get(arguments, "include_preview", TRUE))
    /\ UNCHANGED <<db, name, arguments, handle, nres, results, nhandles, calls,
                   fetched, served, prevFault>>

SearchByDate ==
    /\ pc = "dispatch"
    /\ name = "search_by_date"
    /\ IF "query" \notin DOMAIN arguments
       THEN FailArguments("query")
       ELSE StartSearch(arguments["query"] \o DateFilter(arguments), TRUE)
    /\ UNCHANGED <<db, name, arguments, handle, nres, results, nhandles, calls,
                   fetched, served, prevFault>>

SearchByFiletype ==
    /\ pc = "dispatch"
    /\ name = "search_by_filetype"
    /\ IF "query" \notin DOMAIN arguments
       THEN FailArguments("query")
       ELSE IF "filetype" \notin DOMAIN arguments
       THEN FailArguments("filetype")
       ELSE StartSearch(MimeQuery(arguments["query"], arguments["filetype"]), TRUE)
    /\ UNCHANGED <<db, name, arguments, handle, nres, results, nhandles, calls,
                   fetched, served, prevFault>>

Days == Get(arguments, "days", DefaultDays)

ListRecentFiles ==
    /\ pc = "dispatch"
    /\ name = "list_recent_files"
    /\ StartSearch(RecentQuery(Days), TRUE)
    /\ UNCHANGED <<db, name, arguments, handle, nres, results, nhandles, calls,
                   fetched, served, prevFault>>

GetDocumentContent ==
    /\ pc = "dispatch"
    /\ name = "get_document_content"
    /\ IF "url" \notin DOMAIN arguments
       THEN Leave(OuterExcept(KeyError("url")), Fault("args", KeyError("url")))
       ELSE LET url == arguments["url"]
                filepath == FilePath(url)
                content == ReadFile(filepath)
            IN  IF content.tag = "raise"
                THEN Leave(InnerExcept(content), Fault("file", content))
                ELSE Leave(ContentEnvelope(url, filepath, content.val), NoFault)
    /\ UNCHANGED <<db, name, arguments, locals, nhandles, calls, fetched, served,
                   prevFault>>

UnknownTool ==
    /\ pc = "dispatch"
    /\ name \notin ToolNames
    /\ Leave(UnknownToolResponse(name), NoFault)
    /\ UNCHANGED <<db, name, arguments, locals, nhandles, calls, fetched, served,
                   prevFault>>

\* NewQuery handing out one pooled handle instead of a new one per invocation
NewQueryPooled ==
    /\ pc = "query"
    /\ nhandles' = IF nhandles = 0 THEN 1 ELSE nhandles
    /\ handle' = 1
    /\ calls' = Append(calls, [op |-> "query", h |-> 1, expr |-> ""])
    /\ pc' = "execute"
    /\ UNCHANGED <<db, name, arguments, query_str, max_results, include_preview,
                   nres, results, response, fetched, fault, served, prevFault>>

\* query = db.query()
NewQuery ==
    /\ pc = "query"
    /\ nhandles' = nhandles + 1
    /\ handle' = nhandles + 1
    /\ calls' = Append(calls, [op |-> "query", h |-> nhandles + 1, expr |-> ""])
    /\ pc' = "execute"
    /\ UNCHANGED <<db, name, arguments, query_str, max_results, include_preview,
                   nres, results, response, fetched, fault, served, prevFault>>

EngineError == Raise("Exception", "Xapian query error")

\* nres = query.execute(expression): the engine's count, or it raises
Execute ==
    /\ pc = "execute"
    /\ calls' = Append(calls, [op |-> "execute", h |-> handle, expr |-> query_str])
    /\ \/ \E n \in 0..MaxTotal :
            /\ nres' = n
            /\ pc' = "loop"
            /\ UNCHANGED <<response, fault>>
       \/ /\ Leave(OuterExcept(EngineError), Fault("engine", EngineError))
          /\ UNCHANGED nres
    /\ UNCHANGED <<db, name, arguments, query_str, max_results, include_preview,
                   handle, results, nhandles, fetched, served, prevFault>>

StopIteration == Raise("StopIteration", "")

\* one iteration of `for i in range(min(max_results, nres))`:
\* doc = query.fetchone(); results.append(format_doc_result(doc, ...))
FetchOne ==
    /\ pc = "loop"
    /\ Len(results) < Min(max_results, nres)
    /\ calls' = Append(calls, [op |-> "fetchone", h |-> handle, expr |-> ""])
    /\ \/ \E id \in DocIds :
            LET r == FormatDocResult(RawHit(id), include_preview)
            IN  /\ fetched' = Append(fetched, id)
                /\ IF r.tag = "raise"
                   THEN /\ Leave(OuterExcept(r), Fault("normalize", r))
                        /\ UNCHANGED results
                   ELSE /\ results' = Append(results, r.val)
                        /\ UNCHANGED <<pc, response, fault>>
       \/ \* the engine has no hit left and raises
          /\ Leave(OuterExcept(StopIteration), Fault("exhausted", StopIteration))
          /\ UNCHANGED <<results, fetched>>
       \/ \* the engine has no hit left and hands back None
          LET r == FormatDocResult(NoneDoc, include_preview)
          IN  /\ Leave(OuterExcept(r), Fault("exhausted", r))
              /\ UNCHANGED <<results, fetched>>
       \/ \* the engine fails during the fetch
          /\ Leave(OuterExcept(EngineError), Fault("engine", EngineError))
          /\ UNCHANGED <<results, fetched>>
    /\ UNCHANGED <<db, name, arguments, query_str, max_results, include_preview,
                   handle, nres, nhandles, served, prevFault>>

\* the loop is over: return the envelope
ReturnEnvelope ==
    /\ pc = "loop"
    /\ ~(Len(results) < Min(max_results, nres))
    /\ Leave(IF name = "list_recent_files"
             THEN RecentEnvelope(Days, nres, results)
             ELSE SearchEnvelope(query_str, nres, results),
             NoFault)
    /\ UNCHANGED <<db, name, arguments, locals, nhandles, calls, fetched, served,
                   prevFault>>

\* the protocol loop sends the response; the invocation's values are dropped
SendResponse ==
    /\ pc = "returned"
    /\ pc' = "idle"
    /\ served' = served + 1
    /\ prevFault' = fault.kind
    /\ name' = ""
    /\ arguments' = EmptyDict
    /\ query_str' = ""
    /\ max_results' = 0
    /\ include_preview' = TRUE
    /\ handle' = 0
    /\ nres' = 0
    /\ results' = <<>>
    /\ response' = <<>>
    /\ calls' = <<>>
    /\ fetched' = <<>>
    /\ fault' = NoFault
    /\ UNCHANGED <<db, nhandles>>

Invoke == \E n \in ToolNames \cup UnknownNames : \E a \in ArgumentsOf(n) : HandleCallTool(n, a)

Next ==
    \/ Invoke
    \/ SearchFilesystem
    \/ SearchByDate
    \/ SearchByFiletype
    \/ GetDocumentContent
    \/ ListRecentFiles
    \/ UnknownTool
    \/ NewQuery
    \/ Execute
    \/ FetchOne
    \/ ReturnEnvelope
    \/ SendResponse

Spec == Init /\ [][Next]_vars

\* =================================================================== claims
SearchFamily ==
    {"search_filesystem", "search_by_date", "search_by_filetype",
     "list_recent_files"}

Returned == pc = "returned"

\* the response is one text item that carries a JSON envelope
IsEnvelope == Len(response) = 1 /\ "json" \in DOMAIN response[1].text

\* the response is one text item that carries the plain text s
IsPlain(s) == response = <<TextContent(Plain(s))>>

Body == response[1].text.json

\* the expression handed to execute; meaningful once Len(calls) >= 2
Executed == calls[2].expr

ReadableUrl ==
    /\ name = "get_document_content"
    /\ "url" \in DOMAIN arguments
    /\ ReadFile(FilePath(arguments["url"])).tag = "ok"

FileText == ReadFile(FilePath(arguments["url"])).val

\* C1: without a connection every search/list invocation returns the fixed
\* unavailable text and makes no engine call, while get_document_content on a
\* readable file still returns a content envelope with the file's content.
C1_UnavailableSparesContent ==
    (Returned /\ db = "None") =>
        /\ name \in SearchFamily => (IsPlain(UnavailableText) /\ calls = <<>>)
        /\ ReadableUrl =>
              (IsEnvelope /\ Body.content = SubSeq(FileText, 1, Min(Len(FileText), 10000)))

\* C2: once execute has answered, a search-family invocation returns an
\* envelope with returned_results = len(results) = min(max_results,
\* total_results, hits produced), also when the engine reports exhaustion
\* before total_results hits were produced.
C2_UnderDeliveryTolerated ==
    (Returned /\ name \in SearchFamily /\ Len(calls) >= 2
        /\ fault.kind \in {"none", "exhausted"}) =>
        /\ IsEnvelope
        /\ Body.returned_results = Len(Body.results)
        /\ Body.returned_results =
              (IF fault.kind = "exhausted" THEN Len(fetched)
               ELSE Min(max_results, nres))

\* C3: no hit returned by search_by_date or search_by_filetype carries a
\* preview, whether or not the engine's hit has an abstract.
C3_NoPreviewOutsidePlainSearch ==
    (Returned /\ name \in {"search_by_date", "search_by_filetype"} /\ IsEnvelope) =>
        \A i \in 1..Len(Body.results) : "preview" \notin DOMAIN Body.results[i]

\* C4: an invocation of a name outside the five tools gets the
\* unknown-operation text and makes no engine call, with or without a
\* connection.
C4_UnknownToolAlwaysReported ==
    (Returned /\ name \notin ToolNames) =>
        (IsPlain("Unknown tool: " \o name) /\ calls = <<>>)

RequestScoped ==
    <<name, arguments, query_str, max_results, include_preview, handle, nres,
      results, response, calls, fetched, fault>>

C5_State ==
    /\ pc # "raised"
    /\ Returned =>
          /\ Len(response) = 1
          /\ response[1].type = "text"
          /\ fault.kind = "engine" => IsPlain("Error executing search: " \o fault.msg)
          /\ fault.kind = "file" => IsPlain("Error reading file: " \o fault.msg)
    \* whatever the previous invocation did, one that meets no failure of its
    \* own is served normally
    /\ (Returned /\ db = "connected" /\ fault.kind = "none") =>
          /\ name \in SearchFamily =>
                (IsEnvelope /\ Body.total_results = nres
                    /\ Len(Body.results) = Min(max_results, nres))
          /\ name = "get_document_content" => (IsEnvelope /\ Body.url = arguments["url"])
          /\ name \notin ToolNames => IsPlain("Unknown tool: " \o name)
    \* between invocations nothing of the last one is left
    /\ pc = "idle" =>
          RequestScoped = <<"", EmptyDict, "", 0, TRUE, 0, 0, <<>>, <<>>, <<>>, <<>>, NoFault>>

\* C5: every invocation ends with handle_call_tool returning exactly one text
\* item and never raising; an engine failure is reported as "Error executing
\* search: <message>", a file failure as "Error reading file: <message>"; the
\* connection is never replaced and nothing of a failed invocation is left
\* for the next one, which is served as usual.
C5_EveryInvocationAnswered == [](C5_State) /\ [][db' = db]_vars

C5_Witness ==
    /\ prevFault = "engine"
    /\ Returned
    /\ name = "search_filesystem"
    /\ IsEnvelope
    /\ Body.returned_results = 2

\* C6: the expression search_by_date hands to execute, and echoes in the
\* envelope, is q + " date:<start>/<end>", q + " date:<start>/",
\* q + " date:/<end>" or q, by which of start_date and end_date are supplied.
C6_DateExpression ==
    (name = "search_by_date" /\ Len(calls) >= 2) =>
        LET q == arguments["query"]
            hasStart == "start_date" \in DOMAIN arguments
            hasEnd == "end_date" \in DOMAIN arguments
            expected ==
                CASE hasStart /\ hasEnd ->
                        q \o " date:" \o arguments["start_date"] \o "/"
                          \o arguments["end_date"]
                  [] hasStart /\ ~hasEnd -> q \o " date:" \o arguments["start_date"] \o "/"
                  [] ~hasStart /\ hasEnd -> q \o " date:/" \o arguments["end_date"]
                  [] OTHER -> q
        IN  /\ Executed = expected
            /\ (Returned /\ IsEnvelope) => Body.query = expected

C6_Witness ==
    /\ Returned
    /\ name = "search_by_date"
    /\ "end_date" \notin DOMAIN arguments
    /\ IsEnvelope
    /\ Body.query = "todo date:2025-01-01/"
    /\ Executed = "todo date:2025-01-01/"

\* C7 as stated: every search-family envelope, list_recent_files included,
\* holds the expression that was handed to execute.
C7_EveryEnvelopeEchoesExpression ==
    (Returned /\ name \in SearchFamily /\ IsEnvelope) =>
        ("query" \in DOMAIN Body /\ Body.query = Executed)

\* C7 as amended: the envelopes of search_filesystem, search_by_date and
\* search_by_filetype hold under "query" the expression handed to execute;
\* the envelope of list_recent_files holds no expression but "days", and the
\* expression executed was "date:<days>d/".
C7_EnvelopeEchoesExpressionOrDays ==
    (Returned /\ name \in SearchFamily /\ IsEnvelope) =>
        IF name = "list_recent_files"
        THEN /\ "query" \notin DOMAIN Body
             /\ "days" \in DOMAIN Body
             /\ Executed = "date:" \o ToString(Body.days) \o "d/"
        ELSE /\ "query" \in DOMAIN Body
             /\ Body.query = Executed

C7_Witness ==
    /\ Returned
    /\ name = "list_recent_files"
    /\ "days" \notin DOMAIN arguments
    /\ IsEnvelope
    /\ Body.days = 7
    /\ Executed = "date:7d/"

\* C8: a get_document_content that reads a text of length L returns an
\* envelope with truncated = (L > 10000) and content = the first
\* min(L, 10000) characters of the text.
C8_ContentTruncation ==
    (Returned /\ db = "connected" /\ ReadableUrl) =>
        /\ IsEnvelope
        /\ Body.truncated = (Len(FileText) > 10000)
        /\ Len(Body.content) = Min(Len(FileText), 10000)
        /\ \A i \in 1..Len(Body.content) : Body.content[i] = FileText[i]

C8_Witness ==
    /\ Returned
    /\ ReadableUrl
    /\ Len(FileText) = 10000
    /\ IsEnvelope
    /\ Body.truncated = FALSE
    /\ Len(Body.content) = 10000

\* C9: whatever the mtime token of a hit the engine hands back, the search
\* invocation returns an envelope that contains the hit.
C9_AnyMtimeTokenTolerated ==
    (Returned /\ name \in SearchFamily /\ Len(calls) >= 2
        /\ fault.kind \notin {"engine", "exhausted"}) =>
        (IsEnvelope /\ Len(Body.results) = Len(fetched))

C10_State ==
    (db = "connected" /\ name \in SearchFamily) =>
        /\ \A i \in 1..Len(calls) :
              /\ calls[i].op = (IF i = 1 THEN "query"
                                ELSE IF i = 2 THEN "execute" ELSE "fetchone")
              /\ calls[i].h = calls[1].h
        /\ Len(calls) > 2 => Len(calls) - 2 <= Min(max_results, nres)
        /\ (Returned /\ fault.kind # "args") => Len(calls) >= 2

C10_Step ==
    /\ nhandles' >= nhandles
    /\ Len(calls') > Len(calls) =>
          /\ Len(calls') = Len(calls) + 1
          /\ fault.kind = "none"
          /\ calls'[Len(calls')].op = "query" => calls'[Len(calls')].h > nhandles

\* C10: a search-family invocation whose arguments are complete creates one
\* query handle, new to the engine, calls execute once on it before any
\* fetch, and fetches at most min(max_results, total_results) times, always
\* on that handle; after a failure it makes no further engine call.
C10_FreshHandleProtocol == [](C10_State) /\ [][C10_Step]_vars

C10_Witness ==
    /\ served = 1
    /\ nhandles = 2
    /\ Returned
    /\ Len(calls) = 4
    /\ calls[4].h = 2
    /\ fault.kind = "none"

====
